---- MODULE Spec2Model ----
(***************************************************************************)
(* A model of src/src_kmst/kmst.py: the KMST object, its data loader, the  *)
(* three formulation operations, solve, validate and the run() loop.       *)
(*                                                                         *)
(* The MILP engine (ortools) and networkx are libraries: Solve is modelled *)
(* by its meaning (status OPTIMAL iff the accumulated model is feasible,   *)
(* the solution any minimiser of the objective), is_tree / is_connected by *)
(* theirs.  The Instance class (src_kmst.utils) is not part of src/ and is *)
(* modelled from the data model of the specification.                      *)
(***************************************************************************)
EXTENDS Integers, Sequences, FiniteSets, TLC

VARIABLES
    formulation,     \* self.formulation (config)
    instance_names,  \* self.instance_names (config), a sequence of distinct names
    data,            \* the data directory: instance name -> data file
    instances,       \* self.instances, the insertion-ordered dict as a sequence
    solver,          \* self.solver: the variables, rows and objective of the one model
    x, u, f,         \* self.x, self.u, self.f
    sol,             \* solution_value() of the variables self.x / self.u refer to
    pc,              \* position in run() ("api": methods are called from outside)
    cur,             \* index in self.instances of the loop variable of run()
    feasible,        \* local of run(): what solve returned
    report,          \* locals of validate: the subgraph G and what was printed of it
    last,            \* history: the last method call, its instance and its outcome
    trace,           \* history: per instance, the pipeline states it has passed
    calls            \* history: number of method calls made from outside

vars == <<formulation, instance_names, data, instances, solver, x, u, f, sol,
          pc, cur, feasible, report, last, trace, calls>>

----------------------------------------------------------------------------
(* Bounds of the model *)

\* SpecLoad: the data files have n in 0..MaxFileN
MaxFileN == 12
\* SpecRun, SpecApi: the batch has 1..MaxNames instance names
MaxNames == 2
\* SpecApi: number of method calls made on one KMST object
MaxCalls == 3
\* SpecMTZ: instances have n in 1..MaxN and at most MaxEdges edges
MaxN == 3
MaxEdges == 3

----------------------------------------------------------------------------
(* Generic helpers *)

NoError == "none"

Max(S) == CHOOSE m \in S : \A o \in S : o <= m

Min(S) == CHOOSE m \in S : \A o \in S : m <= o

Range(fn) == {fn[d] : d \in DOMAIN fn}

RECURSIVE SumSeq(_)
SumSeq(s) == IF s = <<>> THEN 0 ELSE Head(s) + SumSeq(Tail(s))

\* arcs in lexicographic order: the one order the model iterates a set of pairs in
ArcLess(a, b) == a[1] < b[1] \/ (a[1] = b[1] /\ a[2] < b[2])

RECURSIVE ArcSeq(_)
ArcSeq(S) ==
    IF S = {} THEN <<>>
    ELSE LET a == CHOOSE c \in S : \A o \in S \ {c} : ArcLess(c, o)
         IN <<a>> \o ArcSeq(S \ {a})

IndexOf(s, e) == CHOOSE i \in 1..Len(s) : s[i] = e

Rev(a) == <<a[2], a[1]>>

\* None and a dict {key: value}
NoneVal == [none |-> TRUE, map |-> <<>>]

Dict(m) == [none |-> FALSE, map |-> m]

\* the exception d[key] raises for each key of keys, if any
LookupError(d, keys) ==
    IF keys = {} THEN NoError
    ELSE IF d.none THEN "TypeError"
    ELSE IF \E key \in keys : key \notin DOMAIN d.map THEN "KeyError"
    ELSE NoError

----------------------------------------------------------------------------
(* Instance and the loader *)

\* Instance(name, n, m, V, E, weights): A is the two orientations of every edge
\* of E and every arc of A has a weight (its own if the file gives one, else
\* that of the opposite orientation); k is set by the caller.
Instance(name, n, m, V, E, weights) ==
    LET A == E \cup {Rev(e) : e \in E}
    IN [name |-> name, n |-> n, m |-> m, V |-> V, E |-> E, A |-> A,
        weights |-> [a \in A |-> IF a \in DOMAIN weights THEN weights[a]
                                 ELSE weights[Rev(a)]],
        k |-> 0]

\* a data file: kind "ok" with first line n+1, second line m+1 and one line
\* <<a, b, w>> per edge; kind "missing" (open fails); kind "malformed" (int fails)
DataFile(kind, n, edges) ==
    [kind |-> kind, n |-> n, m |-> Cardinality(edges), edges |-> edges]

MissingFile == DataFile("missing", 0, {})

MalformedFile == DataFile("malformed", 0, {})

\* the exception load_instance raises on the file of instance_name
load_error(file) ==
    IF file.kind = "missing" THEN "FileNotFoundError"
    ELSE IF file.kind = "malformed" THEN "ValueError: invalid literal"
    ELSE NoError

load_instance(instance_name, file) ==
    LET n == file.n
        Vext == 0..n
        Eext == {<<e[1], e[2]>> : e \in file.edges}
        weights == [a \in Eext |->
                      (CHOOSE e \in file.edges : <<e[1], e[2]>> = a)[3]]
    IN Instance(instance_name, n, file.m, Vext, Eext, weights)

\* ceil(n / d) for n >= 0, d > 0
ceil_div(n, d) == IF n % d = 0 THEN n \div d ELSE (n \div d) + 1

\* instance_0.k = ceil(instance_0.n / 5)
k_0(n) == ceil_div(n, 5)

k_1_floor(n) == n \div 2

\* instance_1.k = ceil(instance_1.n / 2)
k_1(n) == ceil_div(n, 2)

\* the dict key f'{instance_name}_{variant}'
Key(instance_name, variant) == <<instance_name, variant>>

\* the entries load_instances has inserted when it returns or raises: the two
\* siblings of every name before the first one whose file cannot be loaded
load_instances_loaded ==
    LET bad == {i \in 1..Len(instance_names) :
                  load_error(data[instance_names[i]]) # NoError}
        cnt == IF bad = {} THEN Len(instance_names) ELSE Min(bad) - 1
    IN [j \in 1..(2 * cnt) |->
          LET nm == instance_names[(j + 1) \div 2]
              variant == (j + 1) % 2
              instance_0 == load_instance(nm, data[nm])
          IN [instance_0 EXCEPT
                !.k = IF variant = 0 THEN k_0(instance_0.n) ELSE k_1(instance_0.n)]
             @@ [key |-> Key(nm, variant)]]

load_instances_error ==
    LET bad == {i \in 1..Len(instance_names) :
                  load_error(data[instance_names[i]]) # NoError}
    IN IF bad = {} THEN [err |-> NoError, name |-> 0]
       ELSE [err |-> load_error(data[instance_names[Min(bad)]]),
             name |-> instance_names[Min(bad)]]

----------------------------------------------------------------------------
(* The object after __init__ *)

EmptySolver == [vars |-> <<>>, cons |-> {}, ncons |-> 0, obj |-> {}]

NoReport == [printed |-> FALSE, nodes |-> {}, edges |-> {},
             is_tree |-> FALSE, is_connected |-> FALSE, u_values |-> <<>>]

NoCall == [op |-> "none", inst |-> <<0, 0>>, err |-> NoError,
           added |-> FALSE, formulated |-> FALSE]

Formulations == {"MTZ", "SCF", "MCF", "FOO", "mtz"}

Known == {"MTZ", "SCF", "MCF"}

Constructed ==
    /\ instances = <<>>
    /\ solver = EmptySolver
    /\ x = NoneVal /\ u = NoneVal /\ f = NoneVal
    /\ sol = <<>>
    /\ cur = 0
    /\ feasible = FALSE
    /\ report = NoReport
    /\ last = NoCall
    /\ trace = <<>>
    /\ calls = 0

\* load_instances, called by run() (then = "for") or from outside (then = "api")
LoadInstances(then) ==
    /\ pc = "load_instances"
    /\ instances' = load_instances_loaded
    /\ trace' = [j \in 1..Len(instances') |-> <<"LOADED">>]
    /\ last' = [op |-> "load_instances",
                inst |-> <<load_instances_error.name, 0>>,
                err |-> load_instances_error.err,
                added |-> FALSE, formulated |-> FALSE]
    /\ pc' = IF load_instances_error.err = NoError THEN then ELSE "raised"
    /\ UNCHANGED <<formulation, instance_names, data, solver, x, u, f, sol,
                   cur, feasible, report, calls>>

----------------------------------------------------------------------------
(* The formulation operations.  Each returns the fields it leaves in the     *)
(* object and the exception it raises: [x, u, f, solver, err].               *)

Result(xx, uu, ff, model, err) ==
    [x |-> xx, u |-> uu, f |-> ff, solver |-> model, err |-> err]

UnknownFormulation == "ValueError: Formulation not recognized"

\* self.solver.IntVar(lb, ub, name), created for the instance with key inst
IntVar(lb, ub, name, inst) == [lb |-> lb, ub |-> ub, name |-> name, inst |-> inst]

\* x[u, v] = IntVar(0, 1, 'x_u_v') for every arc, then u[v] = IntVar(1, k, 'u_v')
\* for every vertex, appended to the variables the solver already holds
define_variables_mtz(instance, model) ==
    LET arcs == ArcSeq(instance.A)
        base == Len(model.vars)
        xvars == [i \in 1..Len(arcs) |->
                    IntVar(0, 1, <<"x", arcs[i][1], arcs[i][2]>>, instance.key)]
        uvars == [i \in 1..Cardinality(instance.V) |->
                    IntVar(1, instance.k, <<"u", i - 1, i - 1>>, instance.key)]
    IN Result(Dict([a \in instance.A |-> base + IndexOf(arcs, a)]),
              Dict([v \in instance.V |-> base + Len(arcs) + v + 1]),
              Dict(<<>>),
              [model EXCEPT !.vars = model.vars \o xvars \o uvars],
              NoError)

\* pass
define_variables_scf(instance, model) ==
    Result(Dict(<<>>), Dict(<<>>), Dict(<<>>), model, NoError)

\* pass
define_variables_mcf(instance, model) ==
    Result(Dict(<<>>), Dict(<<>>), Dict(<<>>), model, NoError)

define_variables(instance) ==
    IF formulation = "MTZ" THEN define_variables_mtz(instance, solver)
    ELSE IF formulation = "SCF" THEN define_variables_scf(instance, solver)
    ELSE IF formulation = "MCF" THEN define_variables_mcf(instance, solver)
    ELSE Result(Dict(<<>>), Dict(<<>>), Dict(<<>>), solver, UnknownFormulation)

\* the rows of the model.  v: the variables of the row; k: instance.k; inst: the
\* instance the row was added for
Row(kind, v, k, inst) == [kind |-> kind, v |-> v, k |-> k, inst |-> inst]

\* sum(x[i, j] + x[j, i] for (i, j) in E) == k - 1, on the values of its variables
card_holds(vals, k) == SumSeq(vals) = k - 1

\* x[i, j] + x[j, i] <= 1
orient_holds(xij, xji) == xij + xji <= 1

mtz_holds_no_x(ui, xij, uj, k) == ui - uj <= (k - 1) * (1 - xij)

\* u[i] + x[i, j] - u[j] <= (k - 1) * (1 - x[i, j])
mtz_holds(ui, xij, uj, k) == ui + xij - uj <= (k - 1) * (1 - xij)

\* The sum over E is built before Add is called, so a failing lookup adds no
\* row.  Once it is built, every x[i, j] of A exists, and every endpoint of an
\* arc of the instance self.x was made for is a key of self.u (the data files
\* name vertices of V only): the loop over A cannot fail after the sum.
define_constraints_mtz(instance, model) ==
    LET edges == ArcSeq(instance.E)
        xkeys == instance.E \cup {Rev(e) : e \in instance.E}
        err == LookupError(x, xkeys)
        card == Row("card",
                    [i \in 1..(2 * Len(edges)) |->
                       IF i % 2 = 1 THEN x.map[edges[(i + 1) \div 2]]
                       ELSE x.map[Rev(edges[i \div 2])]],
                    instance.k, instance.key)
        rows == {Row("orient", <<x.map[a], x.map[Rev(a)]>>, instance.k, instance.key) :
                    a \in instance.A}
                \cup
                {Row("mtz", <<u.map[a[1]], x.map[a], u.map[a[2]]>>, instance.k, instance.key) :
                    a \in instance.A}
    IN IF err # NoError THEN Result(x, u, f, model, err)
       ELSE Result(x, u, f,
                   [model EXCEPT !.cons = model.cons \cup {card} \cup rows,
                                 !.ncons = model.ncons + 1 + 2 * Cardinality(instance.A)],
                   NoError)

\* pass
define_constraints_scf(instance, model) == Result(x, u, f, model, NoError)

\* pass
define_constraints_mcf(instance, model) == Result(x, u, f, model, NoError)

define_constraints(instance) ==
    IF formulation = "MTZ" THEN define_constraints_mtz(instance, solver)
    ELSE IF formulation = "SCF" THEN define_constraints_scf(instance, solver)
    ELSE IF formulation = "MCF" THEN define_constraints_mcf(instance, solver)
    ELSE Result(x, u, f, solver, UnknownFormulation)

\* Minimize(sum(x[key] * weights[key] for key in keys)): the sum is built first
\* (a failing lookup leaves the objective as it was), then replaces the objective
Minimize(instance, keys, model) ==
    LET err == LookupError(x, keys)
    IN IF err # NoError THEN Result(x, u, f, model, err)
       ELSE Result(x, u, f,
                   [model EXCEPT !.obj = {<<x.map[a], instance.weights[a]>> : a \in keys}],
                   NoError)

define_objective_lenient(instance) ==
    IF formulation = "MTZ" THEN Minimize(instance, instance.A, solver)
    ELSE Minimize(instance, instance.E, solver)

define_objective(instance) ==
    IF formulation = "MTZ" THEN Minimize(instance, instance.A, solver)
    ELSE IF formulation = "SCF" \/ formulation = "MCF"
         THEN Minimize(instance, instance.E, solver)
    ELSE Result(x, u, f, solver, UnknownFormulation)

----------------------------------------------------------------------------
(* self.solver.Solve(): the accumulated model, solved.                       *)
(* Every row reads variables of one define_variables call only, so the       *)
(* model is feasible iff the rows without variables hold and the variables   *)
(* created for each instance (a block) have a feasible assignment.           *)

Holds(c, val) ==
    IF c.kind = "card" THEN card_holds([i \in 1..Len(c.v) |-> val[c.v[i]]], c.k)
    ELSE IF c.kind = "orient" THEN orient_holds(val[c.v[1]], val[c.v[2]])
    ELSE mtz_holds(val[c.v[1]], val[c.v[2]], val[c.v[3]], c.k)

RECURSIVE IdSeq(_)
IdSeq(S) == IF S = {} THEN <<>> ELSE <<Min(S)>> \o IdSeq(S \ {Min(S)})

\* the assignments of ids[1..Len(ids)] within the variables' bounds that satisfy
\* every row whose variables are all assigned, extended one variable at a time
RECURSIVE Extend(_, _, _, _)
Extend(model, S, ids, i) ==
    IF i > Len(ids) THEN S
    ELSE LET id == ids[i]
             ready == {c \in model.cons : c.v # <<>> /\ Max(Range(c.v)) = id}
         IN Extend(model,
                   {b \in {a @@ (id :> val) :
                             a \in S, val \in (model.vars[id].lb)..(model.vars[id].ub)} :
                       \A c \in ready : Holds(c, b)},
                   ids, i + 1)

Owners(model) == {model.vars[i].inst : i \in 1..Len(model.vars)}

BlockIds(model, owners) == {i \in 1..Len(model.vars) : model.vars[i].inst \in owners}

\* the feasible assignments of the variables created for the instances `owners`
FeasibleBlock(model, owners) == Extend(model, {<<>>}, IdSeq(BlockIds(model, owners)), 1)

\* status == OPTIMAL (all variables are bounded, so feasible means optimal)
IsFeasible(model) ==
    /\ \A c \in model.cons : c.v = <<>> => Holds(c, <<>>)
    /\ \A o \in Owners(model) : FeasibleBlock(model, {o}) # {}

\* the objective on an assignment of a block (terms of other variables are constant)
ObjectiveValue(model, val) ==
    LET ts == ArcSeq({t \in model.obj : t[1] \in DOMAIN val})
    IN SumSeq([i \in 1..Len(ts) |-> ts[i][2] * val[ts[i][1]]])

Optimal(model, S) ==
    LET best == Min({ObjectiveValue(model, a) : a \in S})
    IN {a \in S : ObjectiveValue(model, a) = best}

\* the variables the object still refers to
LiveIds == (IF x.none THEN {} ELSE Range(x.map)) \cup (IF u.none THEN {} ELSE Range(u.map))

after_solve_always(ok) == "validate"

\* if feasible: self.validate(instance)
after_solve(ok) == IF ok THEN "validate" ELSE "for"

\* solve(instance): the outcomes [feasible, sol] the solver can produce
solve(instance) ==
    IF IsFeasible(solver)
    THEN {[feasible |-> TRUE, sol |-> a] :
            a \in Optimal(solver,
                          FeasibleBlock(solver, {solver.vars[i].inst : i \in LiveIds}))}
    ELSE {[feasible |-> FALSE, sol |-> <<>>]}

\* x[i, j].solution_value(); 0 for a variable that has no solution
solution_value(id) == IF id \in DOMAIN sol THEN sol[id] ELSE 0

----------------------------------------------------------------------------
(* validate *)

RECURSIVE Component(_, _)
Component(S, edges) ==
    LET T == S \cup UNION {e \in edges : e \cap S # {}}
    IN IF T = S THEN S ELSE Component(T, edges)

\* nx.is_connected(G), G not the null graph
nx_is_connected(nodes, edges) ==
    Component({CHOOSE v \in nodes : TRUE}, edges) = nodes

\* nx.is_tree(G), G not the null graph
nx_is_tree(nodes, edges) ==
    Cardinality(nodes) - 1 = Cardinality(edges) /\ nx_is_connected(nodes, edges)

\* validate(instance): [err, report].  G holds the edges {i, j} of the arcs with
\* solution value 1; nx.is_tree raises NetworkXPointlessConcept on the null graph.
validate(instance) ==
    LET err == LookupError(x, instance.A)
        edges == {{a[1], a[2]} : a \in {b \in instance.A : solution_value(x.map[b]) = 1}}
        nodes == UNION edges
    IN IF err # NoError THEN [err |-> err, report |-> NoReport]
       ELSE IF nodes = {}
       THEN [err |-> "NetworkXPointlessConcept",
             report |-> [NoReport EXCEPT !.printed = TRUE]]
       ELSE [err |-> NoError,
             report |-> [printed |-> TRUE, nodes |-> nodes, edges |-> edges,
                         is_tree |-> nx_is_tree(nodes, edges),
                         is_connected |-> nx_is_connected(nodes, edges),
                         u_values |-> IF formulation = "MTZ"
                                      THEN [v \in nodes |-> solution_value(u.map[v])]
                                      ELSE <<>>]]

----------------------------------------------------------------------------
(* Method calls: on instance i of self.instances, continuing at pc ok or, if *)
(* the call raises, at pc bad                                                *)

Apply(r) == x' = r.x /\ u' = r.u /\ f' = r.f /\ solver' = r.solver

Formulated(i) == "VARIABLES_DEFINED" \in Range(trace[i])

Call(op, i, err, added) ==
    [op |-> op, inst |-> instances[i].key, err |-> err, added |-> added,
     formulated |-> Formulated(i)]

Passed(i, state, err) ==
    IF err = NoError THEN [trace EXCEPT ![i] = Append(@, state)] ELSE trace

DefineVariables(i, ok, bad) ==
    LET r == define_variables(instances[i])
    IN /\ Apply(r)
       /\ sol' = <<>>
       /\ last' = Call("define_variables", i, r.err, FALSE)
       /\ trace' = Passed(i, "VARIABLES_DEFINED", r.err)
       /\ pc' = IF r.err = NoError THEN ok ELSE bad
       /\ UNCHANGED <<formulation, instance_names, data, instances, feasible, report>>

DefineConstraints(i, ok, bad) ==
    LET r == define_constraints(instances[i])
    IN /\ Apply(r)
       /\ last' = Call("define_constraints", i, r.err, r.solver.ncons # solver.ncons)
       /\ trace' = Passed(i, "CONSTRAINTS_DEFINED", r.err)
       /\ pc' = IF r.err = NoError THEN ok ELSE bad
       /\ UNCHANGED <<formulation, instance_names, data, instances, sol, feasible, report>>

DefineObjective(i, ok, bad) ==
    LET r == define_objective(instances[i])
    IN /\ Apply(r)
       /\ last' = Call("define_objective", i, r.err, r.err = NoError)
       /\ trace' = Passed(i, "OBJECTIVE_SET", r.err)
       /\ pc' = IF r.err = NoError THEN ok ELSE bad
       /\ UNCHANGED <<formulation, instance_names, data, instances, sol, feasible, report>>

----------------------------------------------------------------------------
(* run() *)

run_load_instances == LoadInstances("for")

\* for instance_name, instance in self.instances.items()
run_for ==
    /\ pc = "for"
    /\ IF cur < Len(instances)
       THEN cur' = cur + 1 /\ pc' = "define_variables"
       ELSE cur' = cur /\ pc' = "done"
    /\ report' = NoReport
    /\ UNCHANGED <<formulation, instance_names, data, instances, solver, x, u, f,
                   sol, feasible, last, trace, calls>>

run_define_variables ==
    /\ pc = "define_variables"
    /\ DefineVariables(cur, "define_constraints", "raised")
    /\ UNCHANGED <<cur, calls>>

run_define_constraints ==
    /\ pc = "define_constraints"
    /\ DefineConstraints(cur, "define_objective", "raised")
    /\ UNCHANGED <<cur, calls>>

run_define_objective ==
    /\ pc = "define_objective"
    /\ DefineObjective(cur, "solve", "raised")
    /\ UNCHANGED <<cur, calls>>

run_solve ==
    /\ pc = "solve"
    /\ \E out \in solve(instances[cur]) :
          /\ feasible' = out.feasible
          /\ sol' = out.sol
          /\ pc' = after_solve(out.feasible)
    /\ last' = Call("solve", cur, NoError, FALSE)
    /\ trace' = Passed(cur, IF feasible' THEN "SOLVED(feasible)" ELSE "SOLVED(infeasible)",
                        NoError)
    /\ UNCHANGED <<formulation, instance_names, data, instances, solver, x, u, f,
                   cur, report, calls>>

run_validate ==
    /\ pc = "validate"
    /\ LET r == validate(instances[cur])
       IN /\ report' = r.report
          /\ last' = Call("validate", cur, r.err, FALSE)
          /\ trace' = Passed(cur, "VALIDATED", r.err)
          /\ pc' = IF r.err = NoError THEN "for" ELSE "raised"
    /\ UNCHANGED <<formulation, instance_names, data, instances, solver, x, u, f,
                   sol, cur, feasible, calls>>

----------------------------------------------------------------------------
(* Spec: run() on a batch of 1..MaxNames data files, for every formulation tag *)

\* n = 6 (k = 2 and k = 3), a path 0-1-2-3 whose middle edge is the dear one
ChainFile == DataFile("ok", 6, {<<0, 1, 1>>, <<1, 2, 5>>, <<2, 3, 1>>})

\* n = 6 (k = 2 and k = 3) and one edge only: no two edges to select for k = 3
SparseFile == DataFile("ok", 6, {<<0, 1, 1>>})

\* n = 2 (k = 1 and k = 1)
SmallFile == DataFile("ok", 2, {<<0, 1, 1>>, <<1, 2, 1>>})

RunFiles == {ChainFile, SparseFile, SmallFile, MissingFile, MalformedFile}

Batch(m) == [i \in 1..m |-> i]

Init ==
    /\ formulation \in Formulations
    /\ \E m \in 1..MaxNames :
          /\ instance_names = Batch(m)
          /\ data \in [1..m -> RunFiles]
    /\ pc = "load_instances"
    /\ Constructed

Next ==
    \/ run_load_instances
    \/ run_for
    \/ run_define_variables
    \/ run_define_constraints
    \/ run_define_objective
    \/ run_solve
    \/ run_validate

Spec == Init /\ [][Next]_vars

----------------------------------------------------------------------------
(* SpecApi: the methods of one KMST object called from outside, in any order *)

ApiFiles == {SmallFile, SparseFile}

InitApi ==
    /\ formulation \in Formulations
    /\ instance_names = <<1, 2>>
    /\ data \in [{1, 2} -> ApiFiles]
    /\ pc = "load_instances"
    /\ Constructed

api_load_instances == LoadInstances("api")

api_define_variables ==
    /\ pc = "api" /\ calls < MaxCalls
    /\ \E i \in 1..Len(instances) : DefineVariables(i, "api", "api")
    /\ calls' = calls + 1
    /\ UNCHANGED cur

api_define_constraints ==
    /\ pc = "api" /\ calls < MaxCalls
    /\ \E i \in 1..Len(instances) : DefineConstraints(i, "api", "api")
    /\ calls' = calls + 1
    /\ UNCHANGED cur

api_define_objective ==
    /\ pc = "api" /\ calls < MaxCalls
    /\ \E i \in 1..Len(instances) : DefineObjective(i, "api", "api")
    /\ calls' = calls + 1
    /\ UNCHANGED cur

NextApi ==
    \/ api_load_instances
    \/ api_define_variables
    \/ api_define_constraints
    \/ api_define_objective

SpecApi == InitApi /\ [][NextApi]_vars

----------------------------------------------------------------------------
(* SpecLoad: load_instances on a batch of two data files with n in 0..MaxFileN *)

LoadFiles == {DataFile("ok", n, {}) : n \in 0..MaxFileN}

InitLoad ==
    /\ formulation = "MTZ"
    /\ instance_names = <<1, 2>>
    /\ data \in [{1, 2} -> LoadFiles]
    /\ pc = "load_instances"
    /\ Constructed

NextLoad == api_load_instances

SpecLoad == InitLoad /\ [][NextLoad]_vars

----------------------------------------------------------------------------
(* An instance handed to the pipeline with k chosen by the caller (k is a    *)
(* plain attribute of Instance): the loop body of run() on self.instances =  *)
(* {name: instance}                                                          *)

Given(file, k) ==
    [load_instance(1, file) EXCEPT !.k = k] @@ [key |-> Key(1, 0)]

InitGiven(inst, file) ==
    /\ formulation = "MTZ"
    /\ instance_names = <<1>>
    /\ data = [i \in {1} |-> file]
    /\ instances = <<inst>>
    /\ solver = EmptySolver
    /\ x = NoneVal /\ u = NoneVal /\ f = NoneVal
    /\ sol = <<>>
    /\ pc = "define_variables"
    /\ cur = 1
    /\ feasible = FALSE
    /\ report = NoReport
    /\ last = NoCall
    /\ trace = <<<<"LOADED">>>>
    /\ calls = 0

(* SpecMTZ: the MTZ model of every graph with n in 1..MaxN, at most MaxEdges *)
(* edges of weight 1 and every k in 1..n+1                                   *)

Pairs(n) == {p \in (0..n) \X (0..n) : p[1] < p[2]}

MTZFiles ==
    {DataFile("ok", n, {<<p[1], p[2], 1>> : p \in E}) :
        <<n, E>> \in {ne \in (1..MaxN) \X SUBSET Pairs(MaxN) :
                       ne[2] \subseteq Pairs(ne[1]) /\ Cardinality(ne[2]) <= MaxEdges}}

InitMTZ ==
    \E file \in MTZFiles : \E k \in 1..(file.n + 1) :
        InitGiven(Given(file, k), file)

NextMTZ ==
    \/ run_define_variables
    \/ run_define_constraints
    \/ run_define_objective

SpecMTZ == InitMTZ /\ [][NextMTZ]_vars

(* SpecScenario: the end-to-end scenario (n = 4, k = 3) and a graph holding a *)
(* cheap triangle (n = 3, k = 4), through the whole loop body                 *)

ScenarioFile ==
    DataFile("ok", 4, {<<0, 1, 1>>, <<1, 2, 1>>, <<2, 3, 1>>, <<3, 4, 1>>, <<0, 4, 10>>})

TriangleFile ==
    DataFile("ok", 3, {<<0, 1, 1>>, <<1, 2, 1>>, <<0, 2, 1>>, <<2, 3, 5>>})

Scenario == Given(ScenarioFile, 3)

InitScenario ==
    \/ InitGiven(Scenario, ScenarioFile)
    \/ InitGiven(Given(TriangleFile, 4), TriangleFile)

NextScenario ==
    \/ run_define_variables
    \/ run_define_constraints
    \/ run_define_objective
    \/ run_solve
    \/ run_validate
    \/ run_for

SpecScenario == InitScenario /\ [][NextScenario]_vars

----------------------------------------------------------------------------
(* Properties *)

CurInstance == instances[cur]

\* the arcs validate puts in G
Selected(instance, val) == {a \in instance.A : val[x.map[a]] = 1}

Validated == pc = "for" /\ last.op = "validate" /\ last.err = NoError

\* C1: for an instance solved to optimality under MTZ, the arcs with x = 1 are
\* exactly k - 1, and the subgraph the validator builds of them is connected and
\* a tree.
C1_OptimumIsTree ==
    Validated =>
        /\ Cardinality(Selected(CurInstance, sol)) = CurInstance.k - 1
        /\ report.is_connected
        /\ report.is_tree

\* C2: on the end-to-end scenario (vertices 0..4, four unit edges along the path
\* 0-1-2-3-4, edge (0,4) of weight 10, k = 3) every optimum has objective 2 and
\* selects 2 edges, and the validator reports a connected tree on 3 nodes.
C2_ScenarioResult ==
    (Validated /\ CurInstance = Scenario) =>
        /\ ObjectiveValue(solver, sol) = 2
        /\ Cardinality(report.edges) = 2
        /\ report.is_tree
        /\ report.is_connected
        /\ Cardinality(report.nodes) = 3

IsPrefix(s, t) == Len(s) <= Len(t) /\ \A i \in 1..Len(s) : s[i] = t[i]

PipelineFeasible ==
    <<"LOADED", "VARIABLES_DEFINED", "CONSTRAINTS_DEFINED", "OBJECTIVE_SET",
      "SOLVED(feasible)", "VALIDATED">>

PipelineInfeasible ==
    <<"LOADED", "VARIABLES_DEFINED", "CONSTRAINTS_DEFINED", "OBJECTIVE_SET",
      "SOLVED(infeasible)">>

\* C3: in run(), every instance passes LOADED, VARIABLES_DEFINED,
\* CONSTRAINTS_DEFINED, OBJECTIVE_SET, SOLVED in that order, none skipped or
\* repeated, one instance at a time; an instance the loop has left has passed
\* all of them; validate is called for an instance only right after solve
\* returned True for that instance, and never after a non-optimal status.
C3_PipelineOrder ==
    /\ \A i \in 1..Len(trace) :
          /\ IsPrefix(trace[i], PipelineFeasible) \/ IsPrefix(trace[i], PipelineInfeasible)
          /\ i < cur => Len(trace[i]) >= 5
          /\ i > cur => trace[i] = <<"LOADED">>
    /\ pc = "validate" =>
          /\ feasible
          /\ last.op = "solve" /\ last.inst = CurInstance.key
          /\ trace[cur] = SubSeq(PipelineFeasible, 1, 5)
    /\ last.op = "validate" =>
          /\ feasible
          /\ \A i \in 1..Len(instances) :
                instances[i].key = last.inst =>
                    IsPrefix(SubSeq(PipelineFeasible, 1, 5), trace[i])

\* C3 witness: run() has ended after validating one instance and skipping the
\* validation of another, which the solver did not solve
C3_Witness ==
    /\ pc = "done"
    /\ \E i \in 1..Len(trace) : trace[i] = PipelineFeasible
    /\ \E i \in 1..Len(trace) : trace[i] = PipelineInfeasible

\* C4: no failure of one instance (its file, its formulation, its solve or its
\* validation) ends run(): only the configuration error of an unknown
\* formulation tag may.
C4_FailureIsolated ==
    pc = "raised" => last.err = UnknownFormulation

\* C5: when solve is called in run(), the model holds exactly the variables and
\* rows created for the current instance.
C5_ModelIsFresh ==
    pc = "solve" =>
        /\ \A i \in 1..Len(solver.vars) : solver.vars[i].inst = CurInstance.key
        /\ \A c \in solver.cons : c.inst = CurInstance.key

DefineOps == {"define_variables", "define_constraints", "define_objective"}

\* C6: with a formulation tag other than MTZ, SCF, MCF, every call of
\* define_variables, define_constraints or define_objective raises the
\* unknown-formulation error, whatever was called before.
C6_UnknownTagRaises ==
    (formulation \notin Known /\ last.op \in DefineOps) => last.err = UnknownFormulation

\* C6 witness: define_objective has raised it as the third call on the object
C6_Witness ==
    /\ formulation = "FOO"
    /\ calls = 3
    /\ last.op = "define_objective"
    /\ last.err = UnknownFormulation

\* C7: under SCF or MCF, define_variables, define_constraints, define_objective
\* and solve complete in run() without an error, as under MTZ.
C7_FlowTagsComplete ==
    formulation \in {"SCF", "MCF"} =>
        ~(pc = "raised" /\ last.op \in DefineOps \cup {"solve"})

\* C8: define_constraints or define_objective called for an instance whose
\* define_variables has not been called raises an error and adds no row and
\* no objective.
C8_OrderGuarded ==
    (last.op \in {"define_constraints", "define_objective"} /\ ~last.formulated) =>
        (last.err # NoError /\ ~last.added)

Siblings ==
    {p \in (1..Len(instances)) \X (1..Len(instances)) :
        /\ instances[p[1]].key[1] = instances[p[2]].key[1]
        /\ instances[p[1]].key[2] = 0 /\ instances[p[2]].key[2] = 1}

\* C9 as stated: the siblings differ in k whenever n >= 2 and are equal only
\* for n < 2.
C9_SiblingsDifferFrom2 ==
    \A p \in Siblings :
        /\ instances[p[1]].n >= 2 => instances[p[1]].k # instances[p[2]].k
        /\ instances[p[1]].k = instances[p[2]].k => instances[p[1]].n < 2

\* C9 amended: the siblings created by load_instances differ in k whenever
\* n >= 3 and are equal exactly for n <= 2.
C9_SiblingsDifferFrom3 ==
    \A p \in Siblings :
        /\ instances[p[2]].n = instances[p[1]].n
        /\ instances[p[1]].k = instances[p[2]].k <=> instances[p[1]].n <= 2

\* C9 witness: loaded siblings with n = 3 (k = 1, 2) beside siblings with n = 2
\* (k = 1, 1)
C9_Witness ==
    /\ pc = "api"
    /\ \E p \in Siblings :
          instances[p[1]].n = 3 /\ instances[p[1]].k = 1 /\ instances[p[2]].k = 2
    /\ \E p \in Siblings :
          instances[p[1]].n = 2 /\ instances[p[1]].k = 1 /\ instances[p[2]].k = 1

RECURSIVE Reachable(_, _)
Reachable(S, arcs) ==
    LET T == S \cup {a[2] : a \in {b \in arcs : b[1] \in S}}
    IN IF T = S THEN S ELSE Reachable(T, arcs)

HasDirectedCycle(arcs) == \E a \in arcs : a[1] \in Reachable({a[2]}, arcs)

ConstraintsDefined == pc = "define_objective" /\ last.op = "define_constraints"

\* C10: once define_constraints_mtz has run, every arc (i, j) has its sequencing
\* row over u[i], x[i,j], u[j] with u in [1, k] and x in {0, 1}; the row forces
\* u[j] >= u[i] + 1 when x[i,j] = 1 and holds for all u[i], u[j] when
\* x[i,j] = 0; and no assignment satisfying all rows selects a directed cycle.
C10_SequencingForbidsCycles ==
    ConstraintsDefined =>
        /\ \A a \in CurInstance.A :
              LET c == Row("mtz", <<u.map[a[1]], x.map[a], u.map[a[2]]>>,
                           CurInstance.k, CurInstance.key)
                  ui == solver.vars[c.v[1]]
                  xij == solver.vars[c.v[2]]
                  uj == solver.vars[c.v[3]]
              IN /\ c \in solver.cons
                 /\ ui.lb = 1 /\ ui.ub = CurInstance.k
                 /\ uj.lb = 1 /\ uj.ub = CurInstance.k
                 /\ xij.lb = 0 /\ xij.ub = 1
                 /\ \A vi \in (ui.lb)..(ui.ub), vj \in (uj.lb)..(uj.ub) :
                       /\ Holds(c, (c.v[1] :> vi) @@ (c.v[2] :> 0) @@ (c.v[3] :> vj))
                       /\ Holds(c, (c.v[1] :> vi) @@ (c.v[2] :> 1) @@ (c.v[3] :> vj))
                             => vj >= vi + 1
        /\ \A val \in FeasibleBlock(solver, {CurInstance.key}) :
              ~HasDirectedCycle(Selected(CurInstance, val))

\* C10 witness: the rows of a graph holding the triangle 0-1-2 with k = 4 are
\* defined, and an assignment satisfying them selects all three triangle edges
C10_Witness ==
    /\ ConstraintsDefined
    /\ CurInstance.k = 4
    /\ {<<0, 1>>, <<1, 2>>, <<0, 2>>} \subseteq CurInstance.E
    /\ \E val \in FeasibleBlock(solver, {CurInstance.key}) :
          {{a[1], a[2]} : a \in Selected(CurInstance, val)} = {{0, 1}, {1, 2}, {0, 2}}

====
